---- MODULE Spec2Model ----
(***************************************************************************)
(* Model of lightautoml/reader/base.py: Reader / PandasToPandasReader.     *)
(*                                                                         *)
(* A cell of a column is an integer; the missing value np.nan is the       *)
(* distinguished cell NaN.  A Series is a sequence of cells.  A DataFrame  *)
(* is a record [columns |-> sequence of names, data |-> name -> Series].   *)
(* An Optional[Mapping] is a record [none |-> BOOLEAN, map |-> function].  *)
(* Python exceptions are modelled by the field err of a call's result:     *)
(* the assertion message for an AssertionError, the exception class for    *)
(* the others, "ok" for a normal return.                                   *)
(***************************************************************************)
EXTENDS Integers, Sequences, FiniteSets, TLC

VARIABLES
    task,               \* self.task.name
    cv,                 \* self.cv
    max_nan_rate,       \* self.max_nan_rate, a rational <<num, den>>
    max_constant_rate,  \* self.max_constant_rate, a rational <<num, den>>
    roles,              \* self._roles
    used_features,      \* self._used_features
    dropped_features,   \* self._dropped_features
    used_array_attrs,   \* self._used_array_attrs
    class_mapping,      \* self.class_mapping
    self_target,        \* self.target
    advanced_roles,     \* self.advanced_roles
    n_classes,          \* self._n_classes (0 models None)
    meta,               \* self.meta of DictToPandasSeqReader
    ti,                 \* self.ti of DictToPandasSeqReader
    plain_used_features, \* self.plain_used_features of DictToPandasSeqReader
    plain_roles,        \* self.plain_roles of DictToPandasSeqReader
    arg,                \* the argument of the call under study
    ret,                \* what the last call returned or raised
    calls               \* number of calls made on this reader

vars == <<task, cv, max_nan_rate, max_constant_rate, advanced_roles, roles,
          used_features, dropped_features, used_array_attrs, class_mapping,
          self_target, n_classes, meta, ti, plain_used_features, plain_roles,
          arg, ret, calls>>

config == <<task, max_nan_rate, max_constant_rate, advanced_roles>>
fitted == <<roles, used_features, dropped_features, used_array_attrs, self_target>>
seq_state == <<meta, ti, plain_used_features, plain_roles>>

----------------------------------------------------------------------------
(* Bounds of the model *)

MaxLen == 4          \* longest target / feature column enumerated
MaxMultiLen == 2     \* rows of a multi-column target
MaxWindows == 3      \* longest index structure of a sequential table

----------------------------------------------------------------------------
(* Values *)

NaN == -1

TaskNames == {"binary", "multiclass", "multilabel", "reg", "multi:reg"}
SingleTargetTasks == {"binary", "multiclass", "reg"}

\* class labels a target cell may hold: 0..2 can form the range 0..k-1,
\* 3 is a label that always needs a mapping
TargetLabels == {0, 1, 2, 3}
TargetCells == TargetLabels \cup {NaN}

\* the targets quoted in the specification's examples
ExampleTargets ==
    { <<5, 3, 5, 3, 7>>, <<5, 3, 5, 3, 7, 7>>, <<1, 1, 1, 1, 2>>, <<1, 1, 2, 2, 2>> }

CvChoices == {2, 5}

SeqsUpTo(S, n) == UNION {[1..k -> S] : k \in 0..n}

Range(s) == {s[i] : i \in DOMAIN s}

\* the empty dict {}
EmptyDict == [x \in {} |-> 0]

None == [none |-> TRUE, map |-> EmptyDict]
Some(m) == [none |-> FALSE, map |-> m]

\* the assertion messages grouped by the error class the specification names
InvalidTargetError ==
    { "Nan in target detected",
      "Less than 2 unique values in target",
      "Binary task and more than 2 values in target" }
UnsplittableTargetError == {"dataset cannot be splitted stratified"}
MissingTargetError == {"Target should be defined"}
EmptyFeatureSetError == {"All features are excluded for some reasons"}

----------------------------------------------------------------------------
(* pandas / numpy helpers *)

CountOf(s, v) == Cardinality({i \in DOMAIN s : s[i] = v})

SetMax(S) == CHOOSE x \in S : \A y \in S : y <= x

\* Series.value_counts(dropna=False).index.values : the distinct cells by
\* decreasing count.  pandas does not fix the order of cells with equal
\* counts, so this is the set of the orders it may return.
RECURSIVE CountOrders(_, _)
CountOrders(S, s) ==
    IF S = {} THEN {<<>>}
    ELSE LET m == SetMax({CountOf(s, v) : v \in S})
             top == {v \in S : CountOf(s, v) = m}
         IN  UNION {{<<v>> \o r : r \in CountOrders(S \ {v}, s)} : v \in top}

value_counts(s) == CountOrders(Range(s), s)

\* Series.value_counts() (dropna=True)
value_counts_dropna(s) == CountOrders(Range(s) \ {NaN}, s)

\* np.sort(unqiues): ascending, nan last
RECURSIVE SortSet(_)
SortSet(S) ==
    IF S = {} THEN <<>>
    ELSE LET m == CHOOSE x \in S : \A y \in S : x <= y
         IN  <<m>> \o SortSet(S \ {m})

np_sort(unqiues) ==
    SortSet(Range(unqiues) \ {NaN}) \o (IF NaN \in Range(unqiues) THEN <<NaN>> ELSE <<>>)

\* (np.arange(srtd.shape[0]) == srtd).all()
IsArange(srtd) == \A i \in DOMAIN srtd : srtd[i] = i - 1

\* Series.map(mapping): a cell that is no key of the mapping becomes NaN
SeriesMap(s, m) == [i \in DOMAIN s |-> IF s[i] \in DOMAIN m THEN m[s[i]] ELSE NaN]

----------------------------------------------------------------------------
(* PandasToPandasReader.check_class_target *)

\* variant: values[0], the count of the most frequent cell
smallest_of_first(target, unqiues) == CountOf(target, unqiues[1])

\* target_val_counts.values[-1]: the count of the last cell of value_counts
smallest_of(target, unqiues) == CountOf(target, unqiues[Len(unqiues)])

\* variant: the test written "smallest < 1"
one_sample_class_lt(smallest) == smallest < 1

\* the test "if smallest == 1" that raises the ValueError
one_sample_class(smallest) == smallest = 1

\* variant: the warning is given and self.cv is not assigned
reduced_cv_kept(cvin, smallest) == cvin

\* the branch "elif smallest < self.cv: self.cv = smallest"
reduced_cv(cvin, smallest) == IF smallest < cvin THEN smallest ELSE cvin

\* variant: value_counts() called with its default dropna=True, no nan in the index
nan_in_index_dropna(unqiues) == FALSE

\* np.nan in cnts.index
nan_in_index(unqiues) == NaN \in Range(unqiues)

\* variant: the mapping enumerates the sorted cells, enumerate(srtd)
enumerate_sorted(unqiues) ==
    [n \in Range(unqiues) |-> (CHOOSE i \in DOMAIN np_sort(unqiues) : np_sort(unqiues)[i] = n) - 1]

\* class_mapping = {n: x for (x, n) in enumerate(unqiues)}
enumerate_mapping(unqiues) == [n \in Range(unqiues) |-> (CHOOSE i \in DOMAIN unqiues : unqiues[i] = n) - 1]

\* the count assertions of the branch that returns no mapping
arange_case_err(taskname, srtd) ==
    IF ~(Len(srtd) > 1) THEN "Less than 2 unique values in target"
    ELSE IF taskname \in {"binary", "multilabel"} /\ Len(srtd) # 2
         THEN "Binary task and more than 2 values in target"
         ELSE "ok"

Raised(e, cvout, ncls) ==
    [err |-> e, target |-> <<>>, class_mapping |-> None, cv |-> cvout, n_classes |-> ncls]

\* check_class_target on `target`, value_counts having returned the cells in
\* the order `unqiues`; cvin and ncls are self.cv and self._n_classes before.
check_class_target(taskname, cvin, ncls, target, unqiues) ==
    IF nan_in_index(unqiues) THEN Raised("Nan in target detected", cvin, ncls)
    ELSE
    LET srtd == np_sort(unqiues)
        k == Len(unqiues)
    IN  IF taskname = "multiclass" /\ k = 0 THEN Raised("IndexError", cvin, k)
        ELSE IF taskname = "multiclass" /\ one_sample_class(smallest_of(target, unqiues))
        THEN Raised("dataset cannot be splitted stratified", cvin, k)
        ELSE
        LET cvout == IF taskname = "multiclass"
                     THEN reduced_cv(cvin, smallest_of(target, unqiues)) ELSE cvin
        IN  IF IsArange(srtd)
            THEN IF arange_case_err(taskname, srtd) # "ok"
                 THEN Raised(arange_case_err(taskname, srtd), cvout, k)
                 ELSE [err |-> "ok", target |-> target, class_mapping |-> None,
                       cv |-> cvout, n_classes |-> k]
            ELSE [err |-> "ok",
                  target |-> SeriesMap(target, enumerate_mapping(unqiues)),
                  class_mapping |-> Some(enumerate_mapping(unqiues)),
                  cv |-> cvout, n_classes |-> k]

----------------------------------------------------------------------------
(* PandasToPandasReader._create_target *)

\* np.isnan(target.values).any() for a Series or a DataFrame
isnan_any(taskname, target) ==
    IF taskname \in SingleTargetTasks THEN NaN \in Range(target)
    ELSE \E i \in DOMAIN target.columns : NaN \in Range(target.data[target.columns[i]])

\* the loop "for col in target.columns" of the multilabel branch; acc is the
\* state reached so far, orders[col] the order value_counts returns for col
RECURSIVE multilabel_loop(_, _, _)
multilabel_loop(cols, orders, acc) ==
    IF cols = <<>> THEN acc
    ELSE LET col == Head(cols)
             r == check_class_target("multilabel", acc.cv, acc.n_classes,
                                     acc.target.data[col], orders[col])
         IN  IF r.err # "ok"
             THEN [acc EXCEPT !.err = r.err, !.n_classes = r.n_classes, !.target = <<>>]
             ELSE multilabel_loop(Tail(cols), orders,
                    [acc EXCEPT !.class_mapping = Some(@.map @@ (col :> r.class_mapping)),
                                !.target.data[col] = r.target,
                                !.n_classes = r.n_classes])

\* _create_target: err, the returned target, and self.class_mapping, self.cv
\* and self._n_classes as the call leaves them
create_target(taskname, cvin, ncls, target, orders) ==
    IF taskname \in {"binary", "multiclass"}
    THEN check_class_target(taskname, cvin, ncls, target, orders)
    ELSE IF taskname = "multilabel"
    THEN LET r == multilabel_loop(target.columns, orders,
                    [err |-> "ok", target |-> target, class_mapping |-> Some(EmptyDict),
                     cv |-> cvin, n_classes |-> ncls])
         IN  IF r.err # "ok" THEN r
             ELSE [r EXCEPT !.n_classes = Len(target.columns) * 2]
    ELSE IF isnan_any(taskname, target)
         THEN Raised("Nan in target detected", cvin, ncls)
         ELSE [err |-> "ok", target |-> target, class_mapping |-> None,
               cv |-> cvin, n_classes |-> ncls]

\* the orders value_counts may return for each column of a target
TargetOrders(taskname, target) ==
    IF taskname \in SingleTargetTasks THEN value_counts(target)
    ELSE { o \in [Range(target.columns) -> UNION {value_counts(target.data[c]) : c \in Range(target.columns)}] :
             \A c \in Range(target.columns) : o[c] \in value_counts(target.data[c]) }

----------------------------------------------------------------------------
(* The reader after construction *)

InitReader ==
    /\ roles = EmptyDict
    /\ used_features = <<>>
    /\ dropped_features = <<>>
    /\ used_array_attrs = EmptyDict
    /\ class_mapping = None
    /\ self_target = "None"
    /\ n_classes = 0
    /\ meta = EmptyDict
    /\ ti = EmptyDict
    /\ plain_used_features = <<>>
    /\ plain_roles = EmptyDict
    /\ calls = 0
    /\ ret = [op |-> "__init__"]

DefaultRate == <<999, 1000>>

----------------------------------------------------------------------------
(* Target validation called on a constructed reader *)

TargetInputs == SeqsUpTo(TargetCells, MaxLen) \cup ExampleTargets

\* a multi-column target: column y1, and y2 beside it when y1 is short
TargetFrames(y1) ==
    {[columns |-> <<"y1">>, data |-> [c \in {"y1"} |-> y1]]}
    \cup (IF Len(y1) > MaxMultiLen THEN {}
          ELSE {[columns |-> <<"y1", "y2">>,
                 data |-> [c \in {"y1", "y2"} |-> IF c = "y1" THEN y1 ELSE y2]]
                    : y2 \in [1..Len(y1) -> TargetCells]})

InitTarget ==
    /\ InitReader
    /\ task \in TaskNames
    /\ cv \in CvChoices
    /\ max_nan_rate = DefaultRate
    /\ max_constant_rate = DefaultRate
    /\ advanced_roles = TRUE
    /\ arg \in TargetInputs

\* reader.check_class_target(arg)
CheckClassTarget ==
    /\ calls = 0
    /\ \E unqiues \in value_counts(arg) :
         LET r == check_class_target(task, cv, n_classes, arg, unqiues)
         IN  /\ ret' = [op |-> "check_class_target", arg |-> arg, err |-> r.err,
                        target |-> r.target, class_mapping |-> r.class_mapping,
                        cv_before |-> cv, first |-> ret]
             /\ cv' = r.cv
             /\ n_classes' = r.n_classes
    /\ calls' = 1
    /\ UNCHANGED <<config, fitted, seq_state, class_mapping, arg>>

\* reader.check_class_target(encoded), encoded being what the call before returned
CheckClassTargetAgain ==
    /\ calls = 1
    /\ ret.op = "check_class_target"
    /\ ret.err = "ok"
    /\ \E unqiues \in value_counts(ret.target) :
         LET r == check_class_target(task, cv, n_classes, ret.target, unqiues)
         IN  /\ ret' = [op |-> "check_class_target", arg |-> ret.target, err |-> r.err,
                        target |-> r.target, class_mapping |-> r.class_mapping,
                        cv_before |-> cv, first |-> ret]
             /\ cv' = r.cv
             /\ n_classes' = r.n_classes
    /\ calls' = 2
    /\ UNCHANGED <<config, fitted, seq_state, class_mapping, arg>>

\* reader._create_target(target)
CreateTarget ==
    /\ calls = 0
    /\ \E target \in (IF task \in SingleTargetTasks THEN {arg} ELSE TargetFrames(arg)) :
       \E orders \in TargetOrders(task, target) :
         LET r == create_target(task, cv, n_classes, target, orders)
         IN  /\ ret' = [op |-> "_create_target", arg |-> target, err |-> r.err,
                        target |-> r.target, class_mapping |-> r.class_mapping,
                        cv_before |-> cv, first |-> ret]
             /\ cv' = r.cv
             /\ n_classes' = r.n_classes
             /\ class_mapping' = r.class_mapping
    /\ calls' = 1
    /\ UNCHANGED <<config, fitted, seq_state, arg>>

NextTarget == CheckClassTarget \/ CheckClassTargetAgain \/ CreateTarget

SpecTarget == InitTarget /\ [][NextTarget]_vars

----------------------------------------------------------------------------
(* PandasToPandasReader._is_ok_feature *)

\* x / n >= rate for a rate <<num, den>> and n > 0
RateGe(x, n, rate) == x * rate[2] >= rate[1] * n

\* feature.isnull().mean() >= self.max_nan_rate; the mean of an empty
\* column is nan, which compares False
nan_rate_high(feature, rate) ==
    Len(feature) > 0 /\ RateGe(CountOf(feature, NaN), Len(feature), rate)

\* feature.value_counts().values[0]: the count of the most frequent cell
\* that is not missing
top_count(feature) == SetMax({CountOf(feature, v) : v \in Range(feature) \ {NaN}})

is_ok_feature(feature, nan_rate, constant_rate) ==
    IF nan_rate_high(feature, nan_rate) THEN [err |-> "ok", value |-> FALSE]
    ELSE IF Range(feature) \ {NaN} = {} THEN [err |-> "IndexError", value |-> FALSE]
    ELSE IF RateGe(top_count(feature), Len(feature), constant_rate)
         THEN [err |-> "ok", value |-> FALSE]
         ELSE [err |-> "ok", value |-> TRUE]

FeatureCells == {NaN, 1, 2}

\* thresholds a reader may be constructed with: 0.5, the default 0.999, 1.0, 1.5
RateChoices == {<<1, 2>>, <<999, 1000>>, <<1, 1>>, <<3, 2>>}

InitFeature ==
    /\ InitReader
    /\ task = "reg"
    /\ cv = 5
    /\ max_nan_rate \in RateChoices
    /\ max_constant_rate \in RateChoices
    /\ advanced_roles = TRUE
    /\ arg \in SeqsUpTo(FeatureCells, MaxLen) \ {<<>>}

\* reader._is_ok_feature(arg)
IsOkFeature ==
    /\ calls = 0
    /\ LET r == is_ok_feature(arg, max_nan_rate, max_constant_rate)
       IN  ret' = [op |-> "_is_ok_feature", arg |-> arg, err |-> r.err, value |-> r.value]
    /\ calls' = 1
    /\ UNCHANGED <<config, cv, fitted, seq_state, class_mapping, n_classes, arg>>

NextFeature == IsOkFeature

SpecFeature == InitFeature /\ [][NextFeature]_vars

----------------------------------------------------------------------------
(* Roles and dicts *)

Role(n, d) == [name |-> n, dtype |-> d, force_input |-> FALSE]
DropRole == Role("Drop", "none")
NumericRole == Role("Numeric", "float32")
CategoryRole == Role("Category", "object")
DatetimeRole == Role("Datetime", "datetime64")
TargetRole == Role("Target", "float32")

\* attrs_dict = dict(zip(array_attr_roles, valid_array_attributes))
attrs_dict ==
    [r \in {"Target", "Group", "Folds", "Weights"} |->
        CASE r = "Target" -> "target"
          [] r = "Group" -> "group"
          [] r = "Folds" -> "folds"
          [] r = "Weights" -> "weights"]

\* d[k] = v on a dict
Put(d, k, v) == (k :> v) @@ d

\* what pandas answers for a column of each kind: Series.astype(num_dtype),
\* pd.to_datetime(...) and Series.dt.tz_localize("UTC")
Conversions(kind) ==
    CASE kind = "number" -> [astype |-> "ok", to_datetime |-> "ok", tz_localize |-> "ok"]
      [] kind = "date" -> [astype |-> "ValueError", to_datetime |-> "ok", tz_localize |-> "ok"]
      [] kind = "text" -> [astype |-> "ValueError", to_datetime |-> "ValueError", tz_localize |-> "ok"]
      [] kind = "bigint" -> [astype |-> "OverflowError", to_datetime |-> "ok", tz_localize |-> "ok"]

----------------------------------------------------------------------------
(* PandasToPandasReader._guess_role *)

\* c is what the three pandas calls answer for the column: "ok" or the class
\* of the exception raised.  An exception no except clause names leaves the
\* function.
guess_role(c) ==
    IF c.astype = "ok" THEN [err |-> "ok", role |-> NumericRole]
    ELSE IF c.astype \notin {"ValueError", "TypeError"} THEN [err |-> c.astype, role |-> DropRole]
    ELSE IF c.to_datetime \in {"ValueError", "AttributeError", "TypeError"}
    THEN [err |-> "ok", role |-> CategoryRole]
    ELSE IF c.to_datetime # "ok" THEN [err |-> c.to_datetime, role |-> DropRole]
    ELSE IF c.tz_localize \in {"ok", "TypeError"} THEN [err |-> "ok", role |-> DatetimeRole]
    ELSE [err |-> "ok", role |-> CategoryRole]

\* what the calls may answer: astype of an object column holding an int too
\* large for a float raises OverflowError; Series.dt of a column to_datetime
\* left as object raises AttributeError
AstypeOutcomes == {"ok", "ValueError", "TypeError", "OverflowError"}
ToDatetimeOutcomes == {"ok", "ValueError", "AttributeError", "TypeError"}
TzLocalizeOutcomes == {"ok", "TypeError", "AttributeError", "ValueError"}

InitGuess ==
    /\ InitReader
    /\ task = "reg"
    /\ cv \in CvChoices
    /\ max_nan_rate = DefaultRate
    /\ max_constant_rate = DefaultRate
    /\ advanced_roles = TRUE
    /\ arg \in [astype : AstypeOutcomes, to_datetime : ToDatetimeOutcomes,
                 tz_localize : TzLocalizeOutcomes]

\* reader._guess_role(feature), the pandas calls answering as arg says
GuessRole ==
    /\ calls = 0
    /\ LET r == guess_role(arg)
       IN  ret' = [op |-> "_guess_role", arg |-> arg, err |-> r.err, role |-> r.role]
    /\ calls' = 1
    /\ UNCHANGED <<config, cv, fitted, seq_state, class_mapping, n_classes, arg>>

NextGuess == GuessRole

SpecGuess == InitGuess /\ [][NextGuess]_vars

----------------------------------------------------------------------------
(* PandasToPandasReader.fit_read, stage by stage.  self is the record of   *)
(* the reader's attributes; a stage returns self as it leaves it and err.  *)

\* the loop "for feat in parsed_roles": array-attribute roles are moved to
\* kwargs and self._used_array_attrs and replaced by DropRole()
RECURSIVE parse_roles_loop(_, _, _)
parse_roles_loop(feats, train_data, acc) ==
    IF feats = <<>> THEN acc
    ELSE
    LET feat == Head(feats)
        r == acc.parsed[feat]
        attr == attrs_dict[r.name]
        self == acc.self
    IN  IF r.name \notin DOMAIN attrs_dict
        THEN parse_roles_loop(Tail(feats), train_data, acc)
        ELSE IF self.task \in {"multi:reg", "multilabel"} /\ attr = "target"
        THEN IF attr \in DOMAIN acc.kwargs
             THEN IF attr \notin DOMAIN self.used_array_attrs
                  THEN [acc EXCEPT !.err = "KeyError"]
                  ELSE parse_roles_loop(Tail(feats), train_data,
                         [acc EXCEPT !.kwargs = Put(@, attr, Append(@[attr], feat)),
                                     !.self.used_array_attrs = Put(@, attr, Append(@[attr], feat)),
                                     !.parsed[feat] = DropRole])
             ELSE parse_roles_loop(Tail(feats), train_data,
                    [acc EXCEPT !.kwargs = Put(@, attr, <<feat>>),
                                !.self.used_array_attrs = Put(@, attr, <<feat>>),
                                !.parsed[feat] = DropRole])
        ELSE IF feat \notin Range(train_data.columns)
             THEN [acc EXCEPT !.err = "KeyError",
                              !.self.used_array_attrs = Put(@, attr, feat)]
             ELSE parse_roles_loop(Tail(feats), train_data,
                    [acc EXCEPT !.kwargs = Put(@, attr, train_data.data[feat]),
                                !.self.used_array_attrs = Put(@, attr, feat),
                                !.parsed[feat] = DropRole])

\* variant: the assertion reads the reader's own record of array attributes,
\* as the commented-out assertion after the role inference does
target_defined_in_attrs(kwargs, attrs) == "target" \in DOMAIN attrs

\* "target" in kwargs
target_defined(kwargs, attrs) == "target" \in DOMAIN kwargs

\* variant: a declared column is given the guessed role like any other
declared_role_guessed(feat, r, train_data, user_roles) ==
    guess_role(Conversions(train_data.kind[feat]))

\* the role of a column the user declared: the Datetime parsing check and
\* the widening of a default Category role over a numeric column
declared_role(feat, r, train_data, user_roles) ==
    IF r.name = "Datetime" /\ Conversions(train_data.kind[feat]).to_datetime = "ValueError"
    THEN [err |-> "ValueError", role |-> r]
    ELSE IF /\ r.name = "Category"
            /\ feat \in user_roles.category
            /\ CategoryRole.dtype = "object"
            /\ train_data.kind[feat] = "number"
         THEN [err |-> "ok", role |-> [r EXCEPT !.dtype = NumericRole.dtype]]
         ELSE [err |-> "ok", role |-> r]

\* the role of a column the user did not declare
inferred_role(self, feature, kind) ==
    LET ok == is_ok_feature(feature, self.max_nan_rate, self.max_constant_rate)
    IN  IF ok.err # "ok" THEN [err |-> ok.err, role |-> DropRole]
        ELSE IF ok.value THEN guess_role(Conversions(kind))
        ELSE [err |-> "ok", role |-> DropRole]

\* the loop "for feat in subsample.columns" with its "set back" step
RECURSIVE infer_roles_loop(_, _, _, _)
infer_roles_loop(feats, train_data, user_roles, acc) ==
    IF feats = <<>> THEN acc
    ELSE
    LET feat == Head(feats)
        g == IF feat \in DOMAIN acc.parsed
             THEN declared_role(feat, acc.parsed[feat], train_data, user_roles)
             ELSE inferred_role(acc.self, train_data.data[feat], train_data.kind[feat])
    IN  IF g.err # "ok" THEN [acc EXCEPT !.err = g.err]
        ELSE IF g.role.name # "Drop"
        THEN infer_roles_loop(Tail(feats), train_data, user_roles,
               [acc EXCEPT !.self.roles = Put(@, feat, g.role),
                           !.self.used_features = Append(@, feat),
                           !.used_now = Append(@, feat)])
        ELSE infer_roles_loop(Tail(feats), train_data, user_roles,
               [acc EXCEPT !.self.dropped_features = Append(@, feat),
                           !.dropped_now = Append(@, feat)])

\* len(self.used_features) > 0
features_left(used) == Len(used) > 0

\* Reader.upd_used_features(remove=...): list(set(used) - set(remove)); the
\* order in which a set of str is listed is not fixed, so all orders
Orderings(S) == {p \in [1..Cardinality(S) -> S] : Range(p) = S}
upd_used_features(used, remove) == Orderings(Range(used) \ remove)

\* the features advanced_roles_guess scores: numeric ones the user did not
\* declare, and category ones
ScoredFeatures(dataset_roles, manual_roles) ==
    {f \in DOMAIN dataset_roles :
        \/ dataset_roles[f].name = "Numeric" /\ f \notin DOMAIN manual_roles
        \/ dataset_roles[f].name = "Category"}

\* advanced_roles_guess: dataset.roles with DropRole() for the features whose
\* top score is below drop_score_co; `rejected` is what the scorers decide
advanced_roles_guess(dataset_roles, rejected) ==
    [f \in DOMAIN dataset_roles |-> IF f \in rejected THEN DropRole ELSE dataset_roles[f]]

\* PandasDataset(train_data[self.used_features], self.roles, task, **kwargs)
PandasDataset(self, kwargs) ==
    [features |-> self.used_features, roles |-> self.roles, target |-> kwargs["target"]]

NoDataset == [features |-> <<>>, roles |-> EmptyDict, target |-> <<>>]

Outcome(acc, e, stg) ==
    [self |-> acc.self, err |-> e, stage |-> stg, dataset |-> NoDataset, folds_cv |-> 0,
     used_now |-> acc.used_now, dropped_now |-> acc.dropped_now,
     roles_scored |-> EmptyDict, rejected |-> {}]

\* variant: every feature the scorers marked Drop is removed
droplist_all(new_roles, self_roles) ==
    {x \in DOMAIN new_roles : new_roles[x].name = "Drop"}

\* droplist = [x for x in new_roles
\*             if new_roles[x].name == "Drop" and not self._roles[x].force_input]
droplist_of(new_roles, self_roles) ==
    {x \in DOMAIN new_roles : new_roles[x].name = "Drop" /\ ~self_roles[x].force_input}

\* the "if self.advanced_roles" block, after the first dataset is built
advanced_stage(acc, kwargs) ==
    LET self == acc.self
        done == [Outcome(acc, "ok", "done") EXCEPT
                    !.dataset = PandasDataset(self, kwargs), !.folds_cv = self.cv]
    IN  IF ~self.advanced_roles THEN {done}
        ELSE UNION {
            LET new_roles == advanced_roles_guess(self.roles, rejected)
                droplist == droplist_of(new_roles, self.roles)
            IN  { LET self2 == [self EXCEPT
                                  !.used_features = used,
                                  !.roles = [x \in DOMAIN new_roles \ droplist |-> new_roles[x]]]
                  IN  [done EXCEPT !.self = self2, !.dataset = PandasDataset(self2, kwargs),
                                   !.roles_scored = self.roles, !.rejected = rejected]
                  : used \in upd_used_features(self.used_features, droplist) }
            : rejected \in SUBSET ScoredFeatures(self.roles, acc.parsed) }

\* fit_read from the role inference on, the target being created
features_stage(acc, train_data, user_roles, kwargs) ==
    LET inf == infer_roles_loop(train_data.columns, train_data, user_roles, acc)
    IN  IF inf.err # "ok" THEN {Outcome(inf, inf.err, "infer")}
        ELSE IF ~features_left(inf.self.used_features)
        THEN {Outcome(inf, "All features are excluded for some reasons", "infer")}
        ELSE IF ~(Range(inf.self.used_features) \subseteq Range(train_data.columns))
        THEN {[Outcome(inf, "KeyError", "dataset") EXCEPT !.folds_cv = inf.self.cv]}
        ELSE advanced_stage(inf, kwargs)

\* the name(s) self.target keeps
target_name(self, kwargs, parsed) ==
    IF self.task \in {"multi:reg", "multilabel"} THEN kwargs["target"]
    ELSE IF "target" \in DOMAIN self.used_array_attrs /\ \E f \in DOMAIN parsed : parsed[f].name = "Target"
         THEN self.used_array_attrs["target"] ELSE "target"

\* fit_read(train_data, roles=user_roles, **kwargs): every outcome it may have
fit_read(self, train_data, user_roles, kwargs) ==
    LET p == parse_roles_loop(user_roles.keys, train_data,
                [self |-> self, err |-> "ok", parsed |-> user_roles.parsed, kwargs |-> kwargs,
                 used_now |-> <<>>, dropped_now |-> <<>>])
    IN  IF p.err # "ok" THEN {Outcome(p, p.err, "roles")}
        ELSE IF ~target_defined(p.kwargs, p.self.used_array_attrs)
        THEN {Outcome(p, "Target should be defined", "target")}
        ELSE IF "target" \notin DOMAIN p.kwargs
        THEN {Outcome(p, "KeyError", "target")}
        ELSE IF /\ self.task \in {"multi:reg", "multilabel"}
                /\ ~(Range(p.kwargs["target"]) \subseteq Range(train_data.columns))
        THEN {Outcome(p, "KeyError", "target")}
        ELSE
        LET target == IF self.task \in {"multi:reg", "multilabel"}
                      THEN [columns |-> p.kwargs["target"],
                            data |-> [c \in Range(p.kwargs["target"]) |-> train_data.data[c]]]
                      ELSE p.kwargs["target"]
            named == [p EXCEPT !.self.target = target_name(p.self, p.kwargs, user_roles.parsed)]
        IN  UNION {
              LET t == create_target(self.task, self.cv, self.n_classes, target, orders)
                  acc == [named EXCEPT !.self.class_mapping = t.class_mapping,
                                       !.self.cv = t.cv,
                                       !.self.n_classes = t.n_classes]
              IN  IF t.err # "ok" THEN {Outcome(acc, t.err, "create_target")}
                  ELSE features_stage(acc, train_data, user_roles, Put(p.kwargs, "target", t.target))
              : orders \in TargetOrders(self.task, target) }

----------------------------------------------------------------------------
(* The reader's life: fit_read calls on tables of NRows rows *)

NRows == 4       \* rows of a training table
MaxCalls == 2    \* calls made on one reader

Varied(n) == [i \in 1..n |-> (i % 2) + 1]
Constant(n) == [i \in 1..n |-> 1]
Balanced(n) == [i \in 1..n |-> IF 2 * i <= n THEN 0 ELSE 1]
Labelled(n) == [i \in 1..n |-> IF 2 * i <= n THEN 3 ELSE 1]
OneClass(n) == [i \in 1..n |-> 0]
WithMissing(n) == [i \in 1..n |-> IF i = 1 THEN NaN ELSE 0]

FeatureColumns == {Varied(NRows), Constant(NRows)}
TargetColumns == {Balanced(NRows), Labelled(NRows), OneClass(NRows), WithMissing(NRows)}

Table(a) ==
    [columns |-> <<"a">>, data |-> [c \in {"a"} |-> a], kind |-> [c \in {"a"} |-> "number"]]
TableY(a, y) ==
    [columns |-> <<"a", "y">>,
     data |-> [c \in {"a", "y"} |-> IF c = "a" THEN a ELSE y],
     kind |-> [c \in {"a", "y"} |-> "number"]]

NoRoles == [keys |-> <<>>, parsed |-> EmptyDict, category |-> {}]
TargetIsY == [keys |-> <<"y">>, parsed |-> [c \in {"y"} |-> TargetRole], category |-> {}]

\* the calls made: no target at all, the target declared by a role on column
\* y, or the target passed as the extra attribute target=...
FitInputs(taskname) ==
    {[train_data |-> Table(a), roles |-> NoRoles, kwargs |-> EmptyDict] : a \in FeatureColumns}
    \cup {[train_data |-> TableY(a, y), roles |-> TargetIsY, kwargs |-> EmptyDict]
             : a \in FeatureColumns, y \in TargetColumns}
    \cup (IF taskname \in SingleTargetTasks
          THEN {[train_data |-> Table(a), roles |-> NoRoles, kwargs |-> ("target" :> y)]
                   : a \in FeatureColumns, y \in TargetColumns}
          ELSE {[train_data |-> TableY(a, y), roles |-> NoRoles, kwargs |-> ("target" :> <<"y">>)]
                   : a \in FeatureColumns, y \in TargetColumns})

Self ==
    [task |-> task, cv |-> cv, max_nan_rate |-> max_nan_rate,
     max_constant_rate |-> max_constant_rate, advanced_roles |-> advanced_roles,
     roles |-> roles, used_features |-> used_features,
     dropped_features |-> dropped_features, used_array_attrs |-> used_array_attrs,
     class_mapping |-> class_mapping, target |-> self_target, n_classes |-> n_classes,
     meta |-> meta, ti |-> ti,
     plain_used_features |-> plain_used_features, plain_roles |-> plain_roles]

Init ==
    /\ InitReader
    /\ task \in TaskNames
    /\ cv \in CvChoices
    /\ max_nan_rate = DefaultRate
    /\ max_constant_rate = DefaultRate
    /\ advanced_roles \in BOOLEAN
    /\ arg = <<>>

\* reader.fit_read(train_data, roles=roles, **kwargs) for a call of `inputs`
FitReadOf(inputs) ==
    /\ calls < MaxCalls
    /\ \E in \in inputs :
       \E r \in fit_read(Self, in.train_data, in.roles, in.kwargs) :
          /\ ret' = [op |-> "fit_read", arg |-> in, err |-> r.err, stage |-> r.stage,
                     dataset |-> r.dataset, folds_cv |-> r.folds_cv,
                     used_now |-> r.used_now, dropped_now |-> r.dropped_now,
                     roles_scored |-> r.roles_scored, rejected |-> r.rejected,
                     cv_before |-> cv, fitted_before |-> Len(used_features) > 0]
          /\ cv' = r.self.cv
          /\ roles' = r.self.roles
          /\ used_features' = r.self.used_features
          /\ dropped_features' = r.self.dropped_features
          /\ used_array_attrs' = r.self.used_array_attrs
          /\ class_mapping' = r.self.class_mapping
          /\ self_target' = r.self.target
          /\ n_classes' = r.self.n_classes
    /\ calls' = calls + 1
    /\ UNCHANGED <<config, seq_state, arg>>

FitRead == FitReadOf(FitInputs(task))

Next == FitRead

Spec == Init /\ [][Next]_vars

----------------------------------------------------------------------------
(* PandasToPandasReader.read *)

\* col_name is a list of names for the target of a multi-column task, one
\* name otherwise
IsNameList(self, array_attr) == array_attr = "target" /\ self.task \notin SingleTargetTasks

\* data.loc[:, col_name] raises KeyError
loc_fails(self, data, array_attr) ==
    LET col_name == self.used_array_attrs[array_attr]
    IN  IF IsNameList(self, array_attr)
        THEN ~(Range(col_name) \subseteq Range(data.columns))
        ELSE col_name \notin Range(data.columns)

\* val = data.loc[:, col_name]: a Series, or a new DataFrame of the named columns
loc(self, data, array_attr) ==
    LET col_name == self.used_array_attrs[array_attr]
    IN  IF IsNameList(self, array_attr)
        THEN [columns |-> col_name, data |-> [c \in Range(col_name) |-> data.data[c]]]
        ELSE data.data[col_name]

\* variant: the attribute that is absent is forgotten by the reader
missing_attr_forgotten(acc, array_attr) ==
    [acc EXCEPT !.self.used_array_attrs =
        [k \in DOMAIN acc.self.used_array_attrs \ {array_attr} |-> acc.self.used_array_attrs[k]]]

\* except KeyError: continue
missing_attr(acc, array_attr) == acc

\* variant: the encoded column is written to the table that was passed in
assign_encoded_to_data(acc, col, encoded) ==
    [acc EXCEPT !.val.data[col] = encoded, !.data.data[col] = encoded]

\* val.loc[:, col] = val.loc[:, col].map(self.class_mapping[col]); val is the
\* frame data.loc[:, col_name] built, not the caller's table
assign_encoded(acc, col, encoded) == [acc EXCEPT !.val.data[col] = encoded]

\* the loop "for col in val.columns"
RECURSIVE encode_columns(_, _)
encode_columns(cols, acc) ==
    IF cols = <<>> THEN acc
    ELSE LET col == Head(cols)
             mapping == acc.self.class_mapping.map
         IN  IF col \notin DOMAIN mapping THEN [acc EXCEPT !.err = "KeyError"]
             ELSE IF mapping[col].none THEN encode_columns(Tail(cols), acc)
             ELSE encode_columns(Tail(cols),
                    assign_encoded(acc, col, SeriesMap(acc.val.data[col], mapping[col].map)))

\* variant: the cells are taken for codes, the labels for unknown
map_series_codes(val, mapping) ==
    [i \in DOMAIN val |-> IF val[i] \in Range(mapping) THEN val[i] ELSE NaN]

\* Series(val.map(self.class_mapping).values, index=data.index, name=col_name)
map_series(val, mapping) == SeriesMap(val, mapping)

\* variant: the target is returned as it is in the table
read_attr_raw(acc, array_attr) ==
    [acc EXCEPT !.kwargs = Put(@, array_attr, loc(acc.self, acc.data, array_attr))]

\* the body of "for array_attr in self.used_array_attrs" once val is read
read_attr(acc, array_attr) ==
    LET self == acc.self
        val == loc(self, acc.data, array_attr)
    IN  IF array_attr = "target" /\ ~self.class_mapping.none
        THEN IF ~IsNameList(self, array_attr)
             THEN [acc EXCEPT !.kwargs = Put(@, array_attr, map_series(val, self.class_mapping.map))]
             ELSE LET e == encode_columns(val.columns, [acc EXCEPT !.val = val])
                  IN  IF e.err # "ok" THEN e
                      ELSE [e EXCEPT !.kwargs = Put(@, array_attr, e.val)]
        ELSE [acc EXCEPT !.kwargs = Put(@, array_attr, val)]

RECURSIVE read_attrs_loop(_, _)
read_attrs_loop(attrs, acc) ==
    IF attrs = {} \/ acc.err # "ok" THEN acc
    ELSE LET array_attr == CHOOSE k \in attrs : TRUE
         IN  read_attrs_loop(attrs \ {array_attr},
                IF loc_fails(acc.self, acc.data, array_attr)
                THEN missing_attr(acc, array_attr)
                ELSE read_attr(acc, array_attr))

\* PandasDataset(data[self.used_features], roles=self.roles, task=self.task, **kwargs)
ReadDataset(self, data, kwargs) ==
    [features |-> self.used_features, roles |-> self.roles,
     data |-> [c \in Range(self.used_features) |-> data.data[c]], attrs |-> kwargs]

NoReadDataset == [features |-> <<>>, roles |-> EmptyDict, data |-> EmptyDict, attrs |-> EmptyDict]

\* read(data, add_array_attrs=...): the reader and the table as the call
\* leaves them, and the dataset returned
read(self, data, add_array_attrs) ==
    LET start == [self |-> self, data |-> data, err |-> "ok", kwargs |-> EmptyDict, val |-> <<>>]
        acc == IF add_array_attrs
               THEN read_attrs_loop(DOMAIN self.used_array_attrs, start) ELSE start
    IN  IF acc.err # "ok"
        THEN [self |-> acc.self, data |-> acc.data, err |-> acc.err, dataset |-> NoReadDataset]
        ELSE IF ~(Range(acc.self.used_features) \subseteq Range(acc.data.columns))
        THEN [self |-> acc.self, data |-> acc.data, err |-> "KeyError", dataset |-> NoReadDataset]
        ELSE [self |-> acc.self, data |-> acc.data, err |-> "ok",
              dataset |-> ReadDataset(acc.self, acc.data, acc.kwargs)]

\* a target column of a new table with a label the fit has not seen
Unseen(n) == [i \in 1..n |-> IF i = 1 THEN 2 ELSE IF 2 * i <= n THEN 3 ELSE 1]

\* new tables: without the target column, and with it
ReadTables ==
    {Table(Varied(NRows))}
    \cup {TableY(Varied(NRows), y) : y \in {Balanced(NRows), Labelled(NRows), Unseen(NRows)}}

\* the fit that precedes the reads: whether its target was declared by a
\* role and, if it was, its table and the target of its dataset
fit_of(r) ==
    IF r.arg.roles = TargetIsY
    THEN [declared |-> TRUE, train_data |-> r.arg.train_data, target |-> r.dataset.target]
    ELSE [declared |-> FALSE, train_data |-> <<>>, target |-> <<>>]

ReadOf(data, add_array_attrs, again) ==
    LET r == read(Self, data, add_array_attrs)
    IN  /\ ret' = [op |-> "read", data |-> data, add_array_attrs |-> add_array_attrs,
                   err |-> r.err, dataset |-> r.dataset, data_after |-> r.data,
                   again |-> again,
                   fit |-> IF ret.op = "fit_read" THEN fit_of(ret) ELSE ret.fit,
                   first |-> IF again THEN [err |-> ret.err, dataset |-> ret.dataset]
                             ELSE [err |-> "ok", dataset |-> NoReadDataset]]
        /\ cv' = r.self.cv
        /\ roles' = r.self.roles
        /\ used_features' = r.self.used_features
        /\ dropped_features' = r.self.dropped_features
        /\ used_array_attrs' = r.self.used_array_attrs
        /\ class_mapping' = r.self.class_mapping
        /\ self_target' = r.self.target
        /\ n_classes' = r.self.n_classes
        /\ UNCHANGED <<config, seq_state, arg, calls>>

\* reader.read(data, add_array_attrs=...) on a reader whose fit_read succeeded
Read ==
    /\ \/ ret.op = "fit_read" /\ ret.err = "ok"
       \/ ret.op = "read"
    /\ \E data \in ReadTables, add_array_attrs \in BOOLEAN : ReadOf(data, add_array_attrs, FALSE)

\* the same call once more, on the table as the call before left it
ReadAgain ==
    /\ ret.op = "read"
    /\ ~ret.again
    /\ ReadOf(ret.data_after, ret.add_array_attrs, TRUE)

NextRead == FitRead \/ Read \/ ReadAgain

SpecRead == Init /\ [][NextRead]_vars

----------------------------------------------------------------------------
(* PandasToPandasReader.advanced_roles_guess, worker by worker.  The scoring *)
(* functions get_numeric_roles_stat and get_category_roles_stat run one      *)
(* worker per feature (n_jobs) and return a frame indexed by feature name;   *)
(* a row is [name, role, max_score], with scores in hundredths.              *)

DropScoreCo == 1     \* drop_score_co = 0.01

ScoredNames == <<"a", "b">>

\* variant: row i is taken for the i-th feature submitted
row_name_by_position(stat, i, submitted) == submitted[i]

\* the index label of row i of stat
row_name(stat, i, submitted) == stat[i].name

\* rule_based_roles_guess(stat) / rule_based_cat_handler_guess(stat)
rule_based_roles(stat, submitted) ==
    [f \in {row_name(stat, i, submitted) : i \in DOMAIN stat} |->
        stat[CHOOSE i \in DOMAIN stat : row_name(stat, i, submitted) = f].role]

\* stat["max_score"]
max_scores(stat, submitted) ==
    [f \in {row_name(stat, i, submitted) : i \in DOMAIN stat} |->
        stat[CHOOSE i \in DOMAIN stat : row_name(stat, i, submitted) = f].max_score]

\* {**new_roles_dict, **update}
Merged(d, update) == update @@ d

\* the features each pass submits, in the order of the dataset's columns
Submitted(dataset_roles, manual_roles, pass) ==
    SelectSeq(ScoredNames,
        LAMBDA f : /\ f \in DOMAIN dataset_roles
                   /\ IF pass = "numeric"
                      THEN dataset_roles[f].name = "Numeric" /\ f \notin DOMAIN manual_roles
                      ELSE dataset_roles[f].name = "Category")

\* variant: the null score is left out
final_score_best(null_score, best) == best

\* pd.concat([null_scores, top_scores], axis=1).max(axis=1), one row of it
final_score(null_score, best) == IF null_score > best THEN null_score ELSE best

\* rejected = list(top_scores[top_scores < drop_co].index)
rejected_of(top_scores, null_scores) ==
    {f \in DOMAIN top_scores : final_score(null_scores[f], top_scores[f]) < DropScoreCo}

CategoryInt == [CategoryRole EXCEPT !.dtype = "int32"]

CategoryForced == [CategoryRole EXCEPT !.force_input = TRUE]

\* a dataset of the features a and b, and what the scorers find for each:
\* the role of either pass, the best score over the encodings and the score
\* get_null_scores gives
AdvancedInputs ==
    [dataset_roles : [{"a", "b"} -> {NumericRole, CategoryRole, CategoryForced, DatetimeRole}],
     verdicts : [{"a", "b"} -> [numeric : {NumericRole, CategoryRole},
                              category : {CategoryRole, CategoryInt},
                              max_score : {0, 4},
                              null_score : {0, 2}]]]

\* the verdicts that are read for a feature of the role r
verdict_read(r, v) ==
    /\ r.name # "Numeric" => v.numeric = NumericRole
    /\ r.name # "Category" => v.category = CategoryRole
    /\ r.name \notin {"Numeric", "Category"} => v.max_score = 0 /\ v.null_score = 0

InitAdvanced ==
    /\ InitReader
    /\ task = "reg"
    /\ cv = 5
    /\ max_nan_rate = DefaultRate
    /\ max_constant_rate = DefaultRate
    /\ advanced_roles = TRUE
    /\ arg \in {in \in AdvancedInputs :
                  \A f \in {"a", "b"} : verdict_read(in.dataset_roles[f], in.verdicts[f])}

reader_unchanged ==
    UNCHANGED <<config, cv, fitted, seq_state, class_mapping, n_classes, arg>>

\* advanced_roles_guess(dataset, manual_roles={}) up to the numeric scoring
StartGuess ==
    /\ calls = 0
    /\ ret' = [op |-> "advanced_roles_guess", stage |-> "numeric",
               submitted |-> Submitted(arg.dataset_roles, EmptyDict, "numeric"),
               pending |-> Range(Submitted(arg.dataset_roles, EmptyDict, "numeric")),
               stat |-> <<>>, new_roles_dict |-> arg.dataset_roles, top_scores |-> EmptyDict]
    /\ calls' = 1
    /\ reader_unchanged

\* one scoring worker completes; its row joins the frame
WorkerDone ==
    /\ ret.op = "advanced_roles_guess"
    /\ \E f \in ret.pending :
          ret' = [ret EXCEPT
                    !.pending = @ \ {f},
                    !.stat = Append(@, [name |-> f,
                                        role |-> IF ret.stage = "numeric"
                                                 THEN arg.verdicts[f].numeric
                                                 ELSE arg.verdicts[f].category,
                                        max_score |-> arg.verdicts[f].max_score])]
    /\ UNCHANGED calls
    /\ reader_unchanged

\* the numeric pass is merged and the categorical scoring starts
MergeNumeric ==
    /\ ret.op = "advanced_roles_guess"
    /\ ret.stage = "numeric"
    /\ ret.pending = {}
    /\ ret' = [ret EXCEPT
                 !.stage = "category",
                 !.new_roles_dict = Merged(@, rule_based_roles(ret.stat, ret.submitted)),
                 !.top_scores = Merged(@, max_scores(ret.stat, ret.submitted)),
                 !.submitted = Submitted(arg.dataset_roles, EmptyDict, "category"),
                 !.pending = Range(Submitted(arg.dataset_roles, EmptyDict, "category")),
                 !.stat = <<>>]
    /\ UNCHANGED calls
    /\ reader_unchanged

\* the categorical pass is merged, then the rejected features get DropRole()
MergeCategory ==
    /\ ret.op = "advanced_roles_guess"
    /\ ret.stage = "category"
    /\ ret.pending = {}
    /\ LET merged == Merged(ret.new_roles_dict, rule_based_roles(ret.stat, ret.submitted))
           scores == Merged(ret.top_scores, max_scores(ret.stat, ret.submitted))
           rejected == rejected_of(scores, [f \in DOMAIN scores |-> arg.verdicts[f].null_score])
       IN  ret' = [ret EXCEPT
                     !.stage = "done",
                     !.new_roles_dict = Merged(merged, [x \in rejected |-> DropRole]),
                     !.top_scores = scores,
                     !.stat = <<>>]
    /\ UNCHANGED calls
    /\ reader_unchanged

NextAdvanced == StartGuess \/ WorkerDone \/ MergeNumeric \/ MergeCategory

SpecAdvanced == InitAdvanced /\ [][NextAdvanced]_vars

----------------------------------------------------------------------------
(* DictToPandasSeqReader.parse_seq *)

\* the message of the assertion, its backquote written as an apostrophe
MisalignedIndexError == {"Time series ids don't match"}

\* the role of a column of the sequential table: declared or inferred
seq_role_of(feat, seq_dataset, user_roles, acc) ==
    IF feat \in DOMAIN acc.parsed
    THEN declared_role(feat, acc.parsed[feat], seq_dataset, user_roles)
    ELSE inferred_role(acc.self, seq_dataset.data[feat], seq_dataset.kind[feat])

\* if r.name == "Target": r = self._get_default_role_from_str("numeric")
seq_feature_role(r) == IF r.name = "Target" THEN NumericRole ELSE r

\* parsed_roles[feat] = r, the array attributes other than the target moved
\* to kwargs, and the "set back" step
seq_set_back(acc, feat, r, column) ==
    IF r.name \in DOMAIN attrs_dict
    THEN [acc EXCEPT !.parsed = Put(@, feat, r),
                     !.kwargs = Put(@, attrs_dict[r.name], column),
                     !.used_array_attrs = Put(@, attrs_dict[r.name], feat),
                     !.self.dropped_features = Append(@, feat)]
    ELSE IF r.name # "Drop"
    THEN [acc EXCEPT !.parsed = Put(@, feat, r),
                     !.self.roles = Put(@, feat, r),
                     !.self.used_features = Append(@, feat),
                     !.seq_roles = Put(@, feat, r),
                     !.seq_features = Append(@, feat)]
    ELSE [acc EXCEPT !.parsed = Put(@, feat, r),
                     !.self.dropped_features = Append(@, feat)]

\* one turn of the loop, g being the role found for feat or the exception
seq_roles_step(acc, feat, g, column) ==
    IF g.err # "ok" THEN [acc EXCEPT !.err = g.err]
    ELSE seq_set_back(acc, feat, seq_feature_role(g.role), column)

\* the loop "for feat in seq_dataset.columns"
RECURSIVE seq_roles_loop(_, _, _, _)
seq_roles_loop(feats, seq_dataset, user_roles, acc) ==
    IF feats = <<>> \/ acc.err # "ok" THEN acc
    ELSE seq_roles_loop(Tail(feats), seq_dataset, user_roles,
            seq_roles_step(acc, Head(feats),
                           seq_role_of(Head(feats), seq_dataset, user_roles, acc),
                           seq_dataset.data[Head(feats)]))

\* create_ids: the index object kept in self.ti for the dataset's case
create_ids(self_ti, dataset_name, case) ==
    IF case = "next_values" THEN Put(self_ti, dataset_name, "TopInd")
    ELSE IF case = "ids" THEN Put(self_ti, dataset_name, "IDSInd")
    ELSE self_ti

\* variant: a windowed target shorter than the data index is accepted
ids_match_prefix(seq_idx_data, seq_idx_target) ==
    seq_idx_target.none \/ Len(seq_idx_target.idx) <= Len(seq_idx_data)

\* the assertion of lines 863-866 passes
ids_match(seq_idx_data, seq_idx_target) ==
    seq_idx_target.none \/ Len(seq_idx_data) = Len(seq_idx_target.idx)

NoSeqDataset == [features |-> <<>>, roles |-> EmptyDict, idx |-> <<>>, name |-> "None"]

seq_failed(s, e, stg) == [self |-> s, err |-> e, stage |-> stg, dataset |-> NoSeqDataset]

\* self.meta[dataset_name] with "roles", "features" and "attributes"
seq_meta(lp) ==
    [roles |-> lp.seq_roles, features |-> lp.seq_features, attributes |-> lp.used_array_attrs]

\* self.meta[dataset_name].update(seq_idx_data=..., seq_idx_target=...)
seq_meta_ids(m0, created) ==
    [roles |-> m0.roles, features |-> m0.features, attributes |-> m0.attributes,
     seq_idx_data |-> created.data, seq_idx_target |-> created.target]

\* SeqNumpyPandasDataset(data=..., features=..., roles=..., idx=..., name=...)
SeqDataset(m1, dataset_name) ==
    [features |-> m1.features, roles |-> m1.roles,
     idx |-> IF m1.seq_idx_target.none THEN m1.seq_idx_data ELSE m1.seq_idx_target.idx,
     name |-> dataset_name]

\* from self.ti[dataset_name].create_data on; s1 is the reader after create_ids
parse_seq_ids(s1, m1, dataset_name) ==
    IF dataset_name \notin DOMAIN s1.ti THEN seq_failed(s1, "KeyError", "ids")
    ELSE IF ~ids_match(m1.seq_idx_data, m1.seq_idx_target)
    THEN seq_failed([s1 EXCEPT !.meta = Put(@, dataset_name, m1)],
                    "Time series ids don't match", "ids")
    ELSE [self |-> [s1 EXCEPT !.meta = Put(@, dataset_name, m1)], err |-> "ok",
          stage |-> "done", dataset |-> SeqDataset(m1, dataset_name)]

\* from the assertion on seq_features on; lp is what the loop left
parse_seq_meta(lp, dataset_name, case, created) ==
    IF lp.err # "ok" THEN seq_failed(lp.self, lp.err, "roles")
    ELSE IF ~(Len(lp.seq_features) > 0)
    THEN seq_failed(lp.self, "All features are excluded for some reasons", "roles")
    ELSE parse_seq_ids([lp.self EXCEPT !.meta = Put(@, dataset_name, seq_meta(lp)),
                                       !.ti = create_ids(@, dataset_name, case)],
                       seq_meta_ids(seq_meta(lp), created), dataset_name)

\* parse_seq(seq_dataset, plain_data, dataset_name, parsed_roles, roles);
\* created is what the index object's create_data and create_target answer
parse_seq(self, seq_dataset, dataset_name, parsed_roles, user_roles, case, created) ==
    parse_seq_meta(
        seq_roles_loop(seq_dataset.columns, seq_dataset, user_roles,
            [self |-> self, err |-> "ok", parsed |-> parsed_roles, kwargs |-> EmptyDict,
             used_array_attrs |-> EmptyDict, seq_roles |-> EmptyDict, seq_features |-> <<>>]),
        dataset_name, case, created)

\* index structures: one entry per window
Windows(n) == [i \in 1..n |-> i]
NoIdx == [none |-> TRUE, idx |-> <<>>]
CreatedIds ==
    [data : {Windows(n) : n \in 0..MaxWindows},
     target : {NoIdx} \cup {[none |-> FALSE, idx |-> Windows(n)] : n \in 0..MaxWindows}]

SeqTable(s) ==
    [columns |-> <<"s">>, data |-> [c \in {"s"} |-> s], kind |-> [c \in {"s"} |-> "number"]]

SeqInputs ==
    [seq_dataset : {SeqTable(s) : s \in FeatureColumns},
     case : {"next_values", "ids"},
     created : CreatedIds]

InitSeq ==
    /\ InitReader
    /\ task = "reg"
    /\ cv = 5
    /\ max_nan_rate = DefaultRate
    /\ max_constant_rate = DefaultRate
    /\ advanced_roles = TRUE
    /\ arg \in SeqInputs

\* reader.parse_seq(arg.seq_dataset, plain_data, "seq", {}, {})
ParseSeq ==
    /\ calls = 0
    /\ LET r == parse_seq(Self, arg.seq_dataset, "seq", EmptyDict, NoRoles, arg.case, arg.created)
       IN  /\ ret' = [op |-> "parse_seq", arg |-> arg, err |-> r.err, stage |-> r.stage,
                      dataset |-> r.dataset]
           /\ roles' = r.self.roles
           /\ used_features' = r.self.used_features
           /\ dropped_features' = r.self.dropped_features
           /\ meta' = r.self.meta
           /\ ti' = r.self.ti
    /\ calls' = 1
    /\ UNCHANGED <<config, cv, used_array_attrs, class_mapping, self_target, n_classes,
                   plain_used_features, plain_roles, arg>>

NextSeq == ParseSeq

SpecSeq == InitSeq /\ [][NextSeq]_vars

----------------------------------------------------------------------------
(* DictToPandasSeqReader.fit_read.  train_data is {"plain": ..., "seq":     *)
(* {"seq": ...}}, either part possibly absent; the roles passed have no key *)
(* "target" and the task has a single target column.                        *)

NoTable == [none |-> TRUE, table |-> [columns |-> <<>>, data |-> EmptyDict, kind |-> EmptyDict]]
SomeTable(tb) == [none |-> FALSE, table |-> tb]

\* the column names in sorted order
NameOrder == <<"a", "b", "s", "y">>
SortedNames(S) == SelectSeq(NameOrder, LAMBDA f : f \in S)

SeqOutcome(self, e, stg) == [self |-> self, err |-> e, stage |-> stg, dataset |-> NoDataset]

\* self._roles = {x: new_roles[x] for x in new_roles if x not in droplist}
roles_after_guess(self_roles, new_roles, droplist) ==
    [x \in DOMAIN new_roles \ droplist |-> new_roles[x]]

\* self.plain_used_features and self.plain_roles set from the used features
with_plain(self, plain_features) ==
    [self EXCEPT
        !.plain_used_features = SortedNames(Range(self.used_features) \cap plain_features),
        !.plain_roles = [k \in DOMAIN self.roles \cap Range(self.used_features) \cap plain_features
                            |-> self.roles[k]]]

\* PandasDataset(plain_data[self.plain_used_features], self.plain_roles, ...)
PlainDataset(self, kwargs) ==
    [features |-> self.plain_used_features, roles |-> self.plain_roles,
     target |-> kwargs["target"]]

\* the loop "for seq_name, values in self.meta.items()" that closes fit_read
seq_close(self, in, kwargs) ==
    IF DOMAIN self.meta # {} /\ in.seq.none THEN SeqOutcome(self, "TypeError", "close")
    ELSE [self |-> self, err |-> "ok", stage |-> "done", dataset |-> PlainDataset(self, kwargs)]

\* the reader after the "if self.advanced_roles" block, the scorers having
\* rejected `rejected` and list(set) having listed the features as `used`
seq_pruned(self, new_roles, droplist, used, plain_features) ==
    with_plain([self EXCEPT !.used_features = used,
                            !.roles = roles_after_guess(self.roles, new_roles, droplist)],
               plain_features)

seq_advanced_of(self, in, kwargs, plain_features, new_roles) ==
    { seq_close(seq_pruned(self, new_roles, droplist_of(new_roles, self.roles), used,
                           plain_features), in, kwargs)
        : used \in upd_used_features(self.used_features, droplist_of(new_roles, self.roles)) }

\* from "get dataset" on
seq_dataset_stage(self, in, kwargs, parsed, plain_features) ==
    IF ~self.advanced_roles THEN {seq_close(self, in, kwargs)}
    ELSE UNION { seq_advanced_of(self, in, kwargs, plain_features,
                                 advanced_roles_guess(self.plain_roles, rejected))
                   : rejected \in SUBSET ScoredFeatures(self.plain_roles, parsed) }

\* from the role inference over the plain table on; inf is what the loop left
seq_features_stage(inf, in, kwargs, plain_features) ==
    IF inf.err # "ok" THEN {SeqOutcome(inf.self, inf.err, "infer")}
    ELSE IF ~in.plain.none /\ Range(inf.self.used_features) \cap plain_features = {}
    THEN {SeqOutcome(inf.self, "All features are excluded for some reasons", "infer")}
    ELSE seq_dataset_stage(with_plain(inf.self, plain_features), in, kwargs, inf.parsed,
                           plain_features)

\* from _create_target on; t is what _create_target returned
seq_target_stage(acc, t, in, plain_features) ==
    IF t.err # "ok"
    THEN {SeqOutcome([acc.self EXCEPT !.class_mapping = t.class_mapping, !.cv = t.cv,
                                      !.n_classes = t.n_classes, !.target = "target"],
                     t.err, "create_target")}
    ELSE seq_features_stage(
            infer_roles_loop(IF in.plain.none THEN <<>> ELSE in.plain.table.columns,
                             in.plain.table, in.roles,
                             [acc EXCEPT !.self.class_mapping = t.class_mapping,
                                         !.self.cv = t.cv,
                                         !.self.n_classes = t.n_classes,
                                         !.self.target = "target"]),
            in, Put(acc.kwargs, "target", t.target), plain_features)

\* a table of self.meta has a windowed target
meta_has_target(self_meta) ==
    \E n \in DOMAIN self_meta :
        "seq_idx_target" \in DOMAIN self_meta[n] /\ ~self_meta[n].seq_idx_target.none

\* from "add target from seq dataset to plain" on; acc is what the loop over
\* parsed_roles left
seq_kwargs_stage(acc, in, plain_features) ==
    IF acc.err # "ok" THEN {SeqOutcome(acc.self, acc.err, "roles")}
    ELSE IF meta_has_target(acc.self.meta)
    THEN {SeqOutcome(acc.self, IF in.seq.none THEN "TypeError" ELSE "KeyError", "target")}
    ELSE IF ~target_defined(acc.kwargs, acc.self.used_array_attrs)
    THEN {SeqOutcome(acc.self, "Target should be defined", "target")}
    ELSE UNION { seq_target_stage(acc,
                    create_target(acc.self.task, acc.self.cv, acc.self.n_classes,
                                  acc.kwargs["target"], orders),
                    in, plain_features)
                 : orders \in TargetOrders(acc.self.task, acc.kwargs["target"]) }

\* parsed_roles as parse_seq returns it: the roles kept for the table's columns
seq_parsed(parsed, ps) ==
    IF "seq" \in DOMAIN ps.self.meta THEN Merged(parsed, ps.self.meta["seq"].roles) ELSE parsed

\* from the loop "for feat in parsed_roles" on; ps is what parse_seq returned
seq_roles_stage(ps, in, plain_features) ==
    IF ps.err # "ok" THEN {SeqOutcome(ps.self, ps.err, "parse_seq")}
    ELSE seq_kwargs_stage(
            parse_roles_loop(SelectSeq(in.roles.keys, LAMBDA f : f \in plain_features),
                             in.plain.table,
                             [self |-> ps.self, err |-> "ok",
                              parsed |-> seq_parsed(in.roles.parsed, ps),
                              kwargs |-> in.kwargs, used_now |-> <<>>, dropped_now |-> <<>>]),
            in, plain_features)

\* DictToPandasSeqReader.fit_read(train_data, roles=..., **kwargs): every
\* outcome it may have
seq_fit_read(self, in) ==
    seq_roles_stage(
        IF in.seq.none THEN [self |-> self, err |-> "ok", stage |-> "done", dataset |-> NoSeqDataset]
        ELSE parse_seq(self, in.seq.table, "seq", in.roles.parsed, in.roles, in.case, in.created),
        in,
        IF in.plain.none THEN {} ELSE Range(in.plain.table.columns))

\* what the index object answers: no windowed target, an aligned one, a
\* misaligned one
SeqFitCreated ==
    { [data |-> Windows(1), target |-> NoIdx],
      [data |-> Windows(1), target |-> [none |-> FALSE, idx |-> Windows(1)]],
      [data |-> Windows(1), target |-> [none |-> FALSE, idx |-> Windows(0)]] }

SeqFitInputs ==
    { [plain |-> pl, seq |-> NoTable, roles |-> NoRoles,
       kwargs |-> ("target" :> Balanced(NRows)), case |-> "ids",
       created |-> [data |-> Windows(0), target |-> NoIdx]]
        : pl \in {NoTable, SomeTable(Table(Varied(NRows)))} }
    \cup
    { [plain |-> pl, seq |-> SomeTable(SeqTable(s)), roles |-> NoRoles,
       kwargs |-> ("target" :> Balanced(NRows)), case |-> "ids", created |-> c]
        : pl \in {NoTable, SomeTable(Table(Varied(NRows)))},
          s \in FeatureColumns, c \in SeqFitCreated }

InitSeqFit ==
    /\ InitReader
    /\ task \in {"binary", "reg"}
    /\ cv = 5
    /\ max_nan_rate = DefaultRate
    /\ max_constant_rate = DefaultRate
    /\ advanced_roles \in BOOLEAN
    /\ arg = <<>>

\* seq_reader.fit_read(train_data, roles=roles, target=...)
SeqFitRead ==
    /\ calls < MaxCalls
    /\ \E in \in SeqFitInputs :
       \E r \in seq_fit_read(Self, in) :
          /\ ret' = [op |-> "seq_fit_read", arg |-> in, err |-> r.err, stage |-> r.stage,
                     dataset |-> r.dataset]
          /\ cv' = r.self.cv
          /\ roles' = r.self.roles
          /\ used_features' = r.self.used_features
          /\ dropped_features' = r.self.dropped_features
          /\ used_array_attrs' = r.self.used_array_attrs
          /\ class_mapping' = r.self.class_mapping
          /\ self_target' = r.self.target
          /\ n_classes' = r.self.n_classes
          /\ meta' = r.self.meta
          /\ ti' = r.self.ti
          /\ plain_used_features' = r.self.plain_used_features
          /\ plain_roles' = r.self.plain_roles
    /\ calls' = calls + 1
    /\ UNCHANGED <<config, arg>>

NextSeqFit == SeqFitRead

SpecSeqFit == InitSeqFit /\ [][NextSeqFit]_vars

----------------------------------------------------------------------------
(* fit_read with roles the caller declared for the feature column a *)

Forced(r) == [r EXCEPT !.force_input = TRUE]
ColumnKinds == {"number", "date", "text"}

\* roles = {NumericRole(): ["a"]}, {NumericRole(force_input=True): ["a"]},
\* {"category": ["a"]}, {CategoryRole(object, force_input=True): ["a"]},
\* {DatetimeRole(): ["a"]}, and no declaration
Declarations ==
    { [keys |-> <<"a">>, parsed |-> [c \in {"a"} |-> NumericRole], category |-> {}],
      [keys |-> <<"a">>, parsed |-> [c \in {"a"} |-> Forced(NumericRole)], category |-> {}],
      [keys |-> <<"a">>, parsed |-> [c \in {"a"} |-> CategoryRole], category |-> {"a"}],
      [keys |-> <<"a">>, parsed |-> [c \in {"a"} |-> Forced(CategoryRole)], category |-> {}],
      [keys |-> <<"a">>, parsed |-> [c \in {"a"} |-> DatetimeRole], category |-> {}],
      NoRoles }

\* a table with the columns a and b, and the target column y for the tasks
\* whose target is given by column names
TableAB(a, kind, withY) ==
    LET cols == IF withY THEN {"a", "b", "y"} ELSE {"a", "b"}
    IN  [columns |-> IF withY THEN <<"a", "b", "y">> ELSE <<"a", "b">>,
         data |-> [c \in cols |-> CASE c = "a" -> a
                                     [] c = "b" -> Varied(NRows)
                                     [] c = "y" -> Balanced(NRows)],
         kind |-> [c \in cols |-> IF c = "a" THEN kind ELSE "number"]]

DeclaredInputs(taskname) ==
    {[train_data |-> TableAB(a, kind, taskname \notin SingleTargetTasks),
      roles |-> d,
      kwargs |-> IF taskname \in SingleTargetTasks
                 THEN ("target" :> Balanced(NRows)) ELSE ("target" :> <<"y">>)]
        : a \in FeatureColumns, kind \in ColumnKinds, d \in Declarations}

InitRoles ==
    /\ InitReader
    /\ task \in TaskNames
    /\ cv = 5
    /\ max_nan_rate = DefaultRate
    /\ max_constant_rate = DefaultRate
    /\ advanced_roles \in BOOLEAN
    /\ arg = <<>>

FitReadDeclared == FitReadOf(DeclaredInputs(task))

NextRoles == FitReadDeclared

SpecRoles == InitRoles /\ [][NextRoles]_vars

----------------------------------------------------------------------------
(* Properties.  They are stated over the arguments and results recorded in *)
(* ret, with definitions of their own.                                     *)

Classes(s) == Range(s) \ {NaN}
HasMissing(s) == \E i \in DOMAIN s : s[i] = NaN
Occurrences(s, v) == Cardinality({i \in DOMAIN s : s[i] = v})
\* the number of samples of the least-frequent class of a target with a class
LeastFrequent(s) ==
    CHOOSE n \in {Occurrences(s, v) : v \in Classes(s)} :
        \A v \in Classes(s) : n <= Occurrences(s, v)
IsZeroBasedRange(S) == S = 0..(Cardinality(S) - 1)
\* a target is a Series, or a DataFrame when _create_target gets a multi-column task
TargetHasMissing(t) ==
    IF ret.op = "_create_target" /\ task \notin SingleTargetTasks
    THEN \E c \in Range(t.columns) : HasMissing(t.data[c])
    ELSE HasMissing(t)
IsBijectionOnto(m, D, k) ==
    /\ DOMAIN m = D
    /\ {m[x] : x \in D} = 0..(k - 1)
    /\ \A x, y \in D : m[x] = m[y] => x = y
EncodedBy(m, raw, encoded) ==
    /\ Len(encoded) = Len(raw)
    /\ \A i \in DOMAIN raw : encoded[i] = m[raw[i]]

TargetCall == ret.op \in {"check_class_target", "_create_target"}

\* C2: for every task kind, _create_target and check_class_target fail with
\* the invalid-target error whenever a target column holds a missing value,
\* and return no encoded target.
C2_MissingValueIsInvalidTarget ==
    (TargetCall /\ TargetHasMissing(ret.arg))
        => (ret.err \in InvalidTargetError /\ ret.target = <<>>)

C2_Witness ==
    /\ ret.op = "_create_target"
    /\ task = "multilabel"
    /\ ret.arg.columns = <<"y1", "y2">>
    /\ ret.arg.data["y1"] = <<0, 1>>
    /\ HasMissing(ret.arg.data["y2"])
    /\ ret.err = "Nan in target detected"

\* C3: check_class_target fails with the invalid-target error for every
\* binary target whose number of distinct values is not 2 and every
\* multiclass target with fewer than 2 distinct values, range or labels.
C3_ClassCountEnforced ==
    (/\ ret.op = "check_class_target"
     /\ \/ task = "binary" /\ Cardinality(Range(ret.arg)) # 2
        \/ task = "multiclass" /\ Cardinality(Range(ret.arg)) < 2)
        => ret.err \in InvalidTargetError

\* the mapping branch returns a three-class binary target as valid
C3_Witness ==
    /\ ret.op = "check_class_target"
    /\ task = "binary"
    /\ ret.arg = <<1, 2, 3>>
    /\ ret.err = "ok"
    /\ ~ret.class_mapping.none

\* C4 as claimed: for multiclass, the unsplittable-target error is raised if
\* and only if the least-frequent class has exactly 1 sample; never for
\* another task.
C4_UnsplittableIffOneSample ==
    ret.op = "check_class_target"
        => (ret.err \in UnsplittableTargetError
              <=> (/\ task = "multiclass"
                   /\ Classes(ret.arg) # {}
                   /\ LeastFrequent(ret.arg) = 1))

\* C4 as amended: the same for a target without missing values; a missing
\* value is reported first, as an invalid target.
C4_UnsplittableIffOneSampleNoMissing ==
    ret.op = "check_class_target"
        => (ret.err \in UnsplittableTargetError
              <=> (/\ task = "multiclass"
                   /\ ~HasMissing(ret.arg)
                   /\ Classes(ret.arg) # {}
                   /\ LeastFrequent(ret.arg) = 1))

C4_Witness ==
    /\ ret.op = "check_class_target"
    /\ task = "multiclass"
    /\ ret.arg = <<1, 1, 1, 1, 2>>
    /\ ret.err \in UnsplittableTargetError

\* C6: a second check_class_target on the encoded column a first call
\* returned succeeds, returns the column unchanged and no mapping; a target
\* whose distinct values are 0..k-1 yields no mapping.
C6_Idempotent ==
    /\ (ret.op = "check_class_target" /\ calls = 2)
          => (ret.err = "ok" /\ ret.target = ret.arg /\ ret.class_mapping.none)
    /\ (ret.op = "check_class_target" /\ ret.err = "ok" /\ IsZeroBasedRange(Range(ret.arg)))
          => ret.class_mapping.none

\* a one-class binary target is accepted through the mapping branch and its
\* encoding is then rejected
C6_Witness ==
    /\ ret.op = "check_class_target"
    /\ calls = 2
    /\ task = "binary"
    /\ ret.first.arg = <<3, 3>>
    /\ ret.arg = <<0, 0>>
    /\ ret.err = "Less than 2 unique values in target"

\* C7: when the distinct values are not 0..k-1 and validation succeeds, the
\* mapping is a bijection of the k distinct values onto 0..k-1 in order of
\* decreasing count, and the returned column is the raw one mapped cell by cell.
C7_MappingIsCountOrderedBijection ==
    (/\ ret.op = "check_class_target"
     /\ ret.err = "ok"
     /\ ~IsZeroBasedRange(Range(ret.arg)))
        => /\ ~ret.class_mapping.none
           /\ IsBijectionOnto(ret.class_mapping.map, Range(ret.arg), Cardinality(Range(ret.arg)))
           /\ \A x, y \in Range(ret.arg) :
                 ret.class_mapping.map[x] < ret.class_mapping.map[y]
                    => Occurrences(ret.arg, x) >= Occurrences(ret.arg, y)
           /\ EncodedBy(ret.class_mapping.map, ret.arg, ret.target)
           /\ \A i \in DOMAIN ret.target : ret.target[i] \in 0..(Cardinality(Range(ret.arg)) - 1)

C7_Witness ==
    /\ ret.op = "check_class_target"
    /\ task = "multiclass"
    /\ ret.arg = <<1, 3, 3, 3>> \/ ret.arg = <<1, 1, 3, 3>>
    /\ ret.err = "ok"
    /\ ret.class_mapping.map[3] = 0
    /\ ret.target[1] = 1

ExampleCall(t) ==
    /\ ret.op = "check_class_target"
    /\ calls = 1
    /\ task = "multiclass"
    /\ ret.cv_before = 5
    /\ ret.arg = t

\* C8 as claimed: [5, 3, 5, 3, 7] under multiclass with cv = 5 raises nothing
\* and is encoded by a bijection of {3, 5, 7} onto {0, 1, 2}.
C8_ExampleEncoded ==
    ExampleCall(<<5, 3, 5, 3, 7>>)
        => /\ ret.err = "ok"
           /\ ~ret.class_mapping.none
           /\ IsBijectionOnto(ret.class_mapping.map, {3, 5, 7}, 3)
           /\ EncodedBy(ret.class_mapping.map, ret.arg, ret.target)

\* C8 as amended: [5, 3, 5, 3, 7] raises the unsplittable-target error (class
\* 7 has one sample) and returns nothing; with a second sample of class 7,
\* [5, 3, 5, 3, 7, 7], nothing is raised and the bijection is returned.
C8_ExampleUnsplittable ==
    /\ ExampleCall(<<5, 3, 5, 3, 7>>)
          => /\ ret.err \in UnsplittableTargetError
             /\ ret.target = <<>>
             /\ ret.class_mapping.none
    /\ ExampleCall(<<5, 3, 5, 3, 7, 7>>)
          => /\ ret.err = "ok"
             /\ ~ret.class_mapping.none
             /\ IsBijectionOnto(ret.class_mapping.map, {3, 5, 7}, 3)
             /\ EncodedBy(ret.class_mapping.map, ret.arg, ret.target)

C8_Witness ==
    /\ ExampleCall(<<5, 3, 5, 3, 7>>)
    /\ ret.err \in UnsplittableTargetError

MissingShare(col) == Occurrences(col, NaN)
TopShare(col) ==
    IF Classes(col) = {} THEN 0
    ELSE CHOOSE n \in {Occurrences(col, v) : v \in Classes(col)} :
            \A v \in Classes(col) : n >= Occurrences(col, v)

\* C9: _is_ok_feature returns false exactly when missing / length >=
\* max_nan_rate or top count / length >= max_constant_rate, true otherwise;
\* a column that is all missing yields false for every max_nan_rate <= 1.
C9_IsOkFeatureExact ==
    ret.op = "_is_ok_feature"
        => /\ ret.err = "ok"
           /\ ret.value =
                ~(\/ MissingShare(ret.arg) * max_nan_rate[2] >= max_nan_rate[1] * Len(ret.arg)
                  \/ TopShare(ret.arg) * max_constant_rate[2] >= max_constant_rate[1] * Len(ret.arg))
           /\ (Classes(ret.arg) = {} /\ max_nan_rate[1] <= max_nan_rate[2])
                 => ret.value = FALSE

\* an all-missing column under max_nan_rate = 1.5 raises instead of returning
C9_Witness ==
    /\ ret.op = "_is_ok_feature"
    /\ ret.arg = <<NaN, NaN>>
    /\ max_nan_rate = <<3, 2>>
    /\ max_constant_rate = <<999, 1000>>
    /\ ret.err = "IndexError"

\* the target a fit_read call is given: the column declared by a Target
\* role, else the extra attribute
DeclaredTargets(in) == {f \in DOMAIN in.roles.parsed : in.roles.parsed[f].name = "Target"}
NoTargetGiven(in) == DeclaredTargets(in) = {} /\ "target" \notin DOMAIN in.kwargs
RawTarget(in) ==
    IF DeclaredTargets(in) # {}
    THEN in.train_data.data[CHOOSE f \in DeclaredTargets(in) : TRUE]
    ELSE in.kwargs["target"]

\* C1: fit_read fails with the missing-target error whenever, the declared
\* roles being processed, there is neither a column declared as target nor a
\* target passed as an extra attribute; no dataset is returned.
C1_MissingTargetFails ==
    (ret.op = "fit_read" /\ ret.stage # "roles" /\ NoTargetGiven(ret.arg))
        => (ret.err \in MissingTargetError /\ ret.dataset = NoDataset)

\* on a reader that was fitted with a target before
C1_Witness ==
    /\ ret.op = "fit_read"
    /\ ret.fitted_before
    /\ "target" \in DOMAIN used_array_attrs
    /\ NoTargetGiven(ret.arg)
    /\ ret.err \in MissingTargetError

TargetValidated == ret.op = "fit_read" /\ ret.stage \notin {"roles", "target"}
SmallClass(t, folds) == Classes(t) # {} /\ 1 < LeastFrequent(t) /\ LeastFrequent(t) < folds

\* C5 as claimed: for multiclass with 1 < smallest < cv the validation does
\* not fail, cv becomes smallest and the fold assignment of the same fit_read
\* gets it; with smallest >= cv or another task cv is unchanged.
C5_CvReduced ==
    TargetValidated =>
        /\ (task = "multiclass" /\ SmallClass(RawTarget(ret.arg), ret.cv_before))
              => /\ ret.stage # "create_target"
                 /\ cv = LeastFrequent(RawTarget(ret.arg))
                 /\ ret.folds_cv # 0 => ret.folds_cv = LeastFrequent(RawTarget(ret.arg))
        /\ (\/ task # "multiclass"
            \/ Classes(RawTarget(ret.arg)) # {}
                 /\ LeastFrequent(RawTarget(ret.arg)) >= ret.cv_before)
              => cv = ret.cv_before

\* C5 as amended: the same for a target without missing values and with at
\* least two classes.
C5_CvReducedValidTarget ==
    TargetValidated =>
        /\ (/\ task = "multiclass"
            /\ SmallClass(RawTarget(ret.arg), ret.cv_before)
            /\ ~HasMissing(RawTarget(ret.arg))
            /\ Cardinality(Classes(RawTarget(ret.arg))) >= 2)
              => /\ ret.stage # "create_target"
                 /\ cv = LeastFrequent(RawTarget(ret.arg))
                 /\ ret.folds_cv # 0 => ret.folds_cv = LeastFrequent(RawTarget(ret.arg))
        /\ (\/ task # "multiclass"
            \/ Classes(RawTarget(ret.arg)) # {}
                 /\ LeastFrequent(RawTarget(ret.arg)) >= ret.cv_before)
              => cv = ret.cv_before

C5_Witness ==
    /\ ret.op = "fit_read"
    /\ task = "multiclass"
    /\ ret.cv_before = 5
    /\ ret.err = "ok"
    /\ RawTarget(ret.arg) = Balanced(NRows)
    /\ cv = 2
    /\ ret.folds_cv = 2

\* C10: every fit_read call, the first on a reader or a later one, in which
\* every column of the table is dropped fails with the empty-feature-set
\* error and returns no dataset.
C10_AllDroppedFails ==
    (/\ ret.op = "fit_read"
     /\ ret.stage \in {"infer", "dataset", "done"}
     /\ \A c \in Range(ret.arg.train_data.columns) : c \in Range(ret.dropped_now))
        => (ret.err \in EmptyFeatureSetError /\ ret.dataset = NoDataset)

\* a second fit_read drops every column and returns the features of the first
C10_Witness ==
    /\ ret.op = "fit_read"
    /\ ret.fitted_before
    /\ ret.arg.train_data.data["a"] = Constant(NRows)
    /\ ret.used_now = <<>>
    /\ ret.err = "ok"
    /\ ret.dataset.features # <<>>

\* C17: _guess_role returns exactly one of Numeric, Datetime, Category(object):
\* Numeric iff the cast succeeds; otherwise Datetime iff the date parsing
\* succeeds and the localization succeeds or fails with a TypeError;
\* otherwise Category(object).  It returns no other role and raises nothing.
C17_GuessRoleTotal ==
    ret.op = "_guess_role" =>
        /\ ret.err = "ok"
        /\ ret.role \in {NumericRole, DatetimeRole, CategoryRole}
        /\ ret.role = NumericRole <=> ret.arg.astype = "ok"
        /\ ret.role = DatetimeRole
              <=> /\ ret.arg.astype # "ok"
                  /\ ret.arg.to_datetime = "ok"
                  /\ ret.arg.tz_localize \in {"ok", "TypeError"}

\* the cast fails with an exception that is neither ValueError nor TypeError
C17_Witness ==
    /\ ret.op = "_guess_role"
    /\ ret.arg.astype = "OverflowError"
    /\ ret.err = "OverflowError"

DeclaredFeatures(in) ==
    {f \in DOMAIN in.roles.parsed \cap Range(in.train_data.columns) :
        in.roles.parsed[f].name \in {"Numeric", "Category", "Datetime"}}
\* the declared role, a default Category role over a numeric column widened
ExpectedRole(in, f) ==
    IF /\ in.roles.parsed[f].name = "Category"
       /\ f \in in.roles.category
       /\ in.train_data.kind[f] = "number"
    THEN [in.roles.parsed[f] EXCEPT !.dtype = NumericRole.dtype]
    ELSE in.roles.parsed[f]

\* C11: with advanced_roles = False, after fit_read every column declared
\* with a feature role is mapped to the declared role (a default Category
\* role over a numeric column with the numeric dtype), is used, and was not
\* dropped by the nan-rate/constant-rate filter nor given the guessed role.
C11_DeclaredRolesKept ==
    (ret.op = "fit_read" /\ ret.err = "ok" /\ ~advanced_roles)
        => \A f \in DeclaredFeatures(ret.arg) :
              /\ f \in DOMAIN roles
              /\ roles[f] = ExpectedRole(ret.arg, f)
              /\ f \in Range(used_features)
              /\ f \notin Range(ret.dropped_now)
              /\ ret.dataset.roles[f] = ExpectedRole(ret.arg, f)

\* a constant numeric column declared "category": kept, widened, not guessed
C11_Witness ==
    /\ ret.op = "fit_read"
    /\ ret.err = "ok"
    /\ ~advanced_roles
    /\ ret.arg.train_data.data["a"] = Constant(NRows)
    /\ ret.arg.train_data.kind["a"] = "number"
    /\ "a" \in ret.arg.roles.category
    /\ roles["a"] = [CategoryRole EXCEPT !.dtype = "float32"]
    /\ "a" \in Range(used_features)

\* C16: with advanced role guessing, a feature whose role before scoring has
\* force_input is in used_features and in the rebuilt dataset after fit_read,
\* whatever the scorers decided for it.
C16_ForcedInputKept ==
    (ret.op = "fit_read" /\ ret.err = "ok" /\ advanced_roles)
        => \A f \in DOMAIN ret.roles_scored :
              ret.roles_scored[f].force_input
                 => /\ f \in Range(used_features)
                    /\ f \in Range(ret.dataset.features)

\* the scorers reject both a forced feature and a free one
C16_Witness ==
    /\ ret.op = "fit_read"
    /\ ret.err = "ok"
    /\ advanced_roles
    /\ "a" \in DOMAIN ret.roles_scored
    /\ ret.roles_scored["a"].force_input
    /\ {"a", "b"} \subseteq ret.rejected
    /\ "a" \in Range(used_features)
    /\ "b" \notin Range(used_features)

ArrayAttrColumns(in) ==
    {f \in DOMAIN in.roles.parsed : in.roles.parsed[f].name \in DOMAIN attrs_dict}
\* the attribute is recorded under its key: the column name, or the list of
\* column names of a multi-column target
RecordedAs(attrs, key, f) ==
    /\ key \in DOMAIN attrs
    /\ IF task \in SingleTargetTasks THEN attrs[key] = f ELSE f \in Range(attrs[key])

\* C15: after a successful fit_read no column of the role mapping carries an
\* array-attribute role; every column declared with one is recorded in
\* used_array_attrs, is in dropped_features and is not in used_features.
C15_ArrayAttrsStripped ==
    (ret.op = "fit_read" /\ ret.err = "ok")
        => /\ \A f \in DOMAIN roles : roles[f].name \notin DOMAIN attrs_dict
           /\ \A f \in ArrayAttrColumns(ret.arg) :
                 /\ RecordedAs(used_array_attrs, attrs_dict[ret.arg.roles.parsed[f].name], f)
                 /\ f \in Range(dropped_features)
                 /\ f \notin Range(used_features)

\* column y, a feature of the first fit_read, is declared the target in the
\* second and stays in used_features
C15_Witness ==
    /\ ret.op = "fit_read"
    /\ ret.err = "ok"
    /\ ret.fitted_before
    /\ "y" \in ArrayAttrColumns(ret.arg)
    /\ "y" \in Range(dropped_features)
    /\ "y" \in Range(used_features)

\* C20: after a successful fit_read every column of the table is in exactly
\* one of used_features and dropped_features; a feature used after the role
\* inference and pruned by the advanced guess is in dropped_features.
C20_UsedDroppedPartition ==
    (ret.op = "fit_read" /\ ret.err = "ok")
        => /\ \A c \in Range(ret.arg.train_data.columns) :
                 (c \in Range(used_features)) # (c \in Range(dropped_features))
           /\ \A c \in Range(ret.used_now) :
                 c \notin Range(used_features) => c \in Range(dropped_features)

\* the first fit_read of a reader: column a is rejected by the scorers and
\* is then in neither list
C20_Witness ==
    /\ ret.op = "fit_read"
    /\ ret.err = "ok"
    /\ calls = 1
    /\ "a" \in Range(ret.used_now)
    /\ "a" \in ret.rejected
    /\ "a" \notin Range(used_features)
    /\ "a" \notin Range(dropped_features)

\* C12: two consecutive read calls with the same table and the same
\* add_array_attrs flag return identical datasets (or fail alike).
C12_ReadRepeatable ==
    (ret.op = "read" /\ ret.again)
        => (ret.err = ret.first.err /\ ret.dataset = ret.first.dataset)

\* a multi-column target is re-encoded, and is so again by the second call
C12_Witness ==
    /\ ret.op = "read"
    /\ ret.again
    /\ ret.add_array_attrs
    /\ ret.err = "ok"
    /\ task = "multilabel"
    /\ "target" \in DOMAIN ret.dataset.attrs
    /\ ret.dataset.attrs["target"].data["y"] # ret.data.data["y"]

\* C13: a read call, with or without add_array_attrs, the attribute columns
\* present or not, leaves roles, used_features, dropped_features,
\* used_array_attrs, class_mapping and cv as they were.
C13_ReadKeepsState ==
    [][ret'.op = "read" =>
          UNCHANGED <<roles, used_features, dropped_features, used_array_attrs,
                      class_mapping, cv>>]_vars

\* a read with add_array_attrs of a table that lacks the recorded target column
C13_Witness ==
    /\ ret.op = "read"
    /\ ret.add_array_attrs
    /\ ret.err = "ok"
    /\ "target" \in DOMAIN used_array_attrs
    /\ "y" \notin Range(ret.data.columns)
    /\ ret.dataset.attrs = EmptyDict

AttrPresent(k, data) ==
    IF k = "target" /\ task \notin SingleTargetTasks
    THEN Range(used_array_attrs[k]) \subseteq Range(data.columns)
    ELSE used_array_attrs[k] \in Range(data.columns)
\* a column of the new table through an optional label mapping
Reencoded(column, mapping) ==
    IF mapping.none THEN column
    ELSE [i \in DOMAIN column |->
             IF column[i] \in DOMAIN mapping.map THEN mapping.map[column[i]] ELSE NaN]
ExpectedAttr(k, data) ==
    IF k # "target" THEN data.data[used_array_attrs[k]]
    ELSE IF task \in SingleTargetTasks
    THEN Reencoded(data.data[used_array_attrs[k]], class_mapping)
    ELSE [columns |-> used_array_attrs[k],
          data |-> [c \in Range(used_array_attrs[k]) |->
                      IF class_mapping.none THEN data.data[c]
                      ELSE Reencoded(data.data[c], class_mapping.map[c])]]

\* C14: read with add_array_attrs returns, for each recorded array attribute
\* whose column the new table has, that column, the target re-encoded through
\* the fitted mapping where there is one; an attribute whose column is absent
\* is left out and is no error; without add_array_attrs nothing is returned.
C14_ReadArrayAttrs ==
    ret.op = "read" =>
        /\ Range(used_features) \subseteq Range(ret.data.columns) => ret.err = "ok"
        /\ (ret.err = "ok" /\ ~ret.add_array_attrs) => ret.dataset.attrs = EmptyDict
        /\ (ret.err = "ok" /\ ret.add_array_attrs)
              => /\ DOMAIN ret.dataset.attrs
                       = {k \in DOMAIN used_array_attrs : AttrPresent(k, ret.data)}
                 /\ \A k \in DOMAIN ret.dataset.attrs :
                       ret.dataset.attrs[k] = ExpectedAttr(k, ret.data)

\* the target column of the new table comes back encoded by the fitted mapping
C14_Witness ==
    /\ ret.op = "read"
    /\ ret.add_array_attrs
    /\ ret.err = "ok"
    /\ task = "binary"
    /\ ~class_mapping.none
    /\ "y" \in Range(ret.data.columns)
    /\ "target" \in DOMAIN ret.dataset.attrs
    /\ ret.data.data["y"] = Labelled(NRows)
    /\ ret.dataset.attrs["target"] = Balanced(NRows)

\* C18: parse_seq fails with the misaligned-index error, and builds no
\* sequential dataset, whenever the index object produced a windowed target
\* whose length differs from that of the data index; with equal lengths, or
\* no windowed target, this error does not occur.
C18_MisalignedIndexFails ==
    ret.op = "parse_seq" =>
        /\ (/\ ret.stage \in {"ids", "done"}
            /\ ~ret.arg.created.target.none
            /\ Len(ret.arg.created.target.idx) # Len(ret.arg.created.data))
              => (ret.err \in MisalignedIndexError /\ ret.dataset = NoSeqDataset)
        /\ (\/ ret.arg.created.target.none
            \/ Len(ret.arg.created.target.idx) = Len(ret.arg.created.data))
              => ret.err \notin MisalignedIndexError

\* a windowed target one window shorter than the data index
C18_Witness ==
    /\ ret.op = "parse_seq"
    /\ Len(ret.arg.created.data) = 2
    /\ ~ret.arg.created.target.none
    /\ Len(ret.arg.created.target.idx) = 1
    /\ ret.err \in MisalignedIndexError
    /\ "seq" \in DOMAIN meta

\* the mapping by feature name: the dropped score wins, then the verdict of
\* the pass that scores the feature
VerdictByName(in) ==
    [f \in DOMAIN in.dataset_roles |->
        IF in.dataset_roles[f].name \notin {"Numeric", "Category"} THEN in.dataset_roles[f]
        ELSE IF in.verdicts[f].max_score < DropScoreCo /\ in.verdicts[f].null_score < DropScoreCo
        THEN DropRole
        ELSE IF in.dataset_roles[f].name = "Numeric" THEN in.verdicts[f].numeric
        ELSE in.verdicts[f].category]

\* C19: the mapping advanced_roles_guess returns is the same for every order
\* in which the scoring workers complete: it is the mapping of the verdicts
\* by feature name, the numeric, categorical and drop passes applied in turn.
C19_ScheduleIndependent ==
    (ret.op = "advanced_roles_guess" /\ ret.stage = "done")
        => ret.new_roles_dict = VerdictByName(arg)

\* the worker of b completed before the worker of a, with another verdict
C19_Witness ==
    /\ ret.op = "advanced_roles_guess"
    /\ ret.stage = "numeric"
    /\ ret.pending = {}
    /\ Len(ret.stat) = 2
    /\ ret.stat[1].name = "b"
    /\ ret.stat[1].role # ret.stat[2].role

\* C21: after a successful fit_read every feature of used_features has a role
\* other than Drop in the reader's role mapping, and the roles handed to the
\* final dataset hold no Drop role, features kept by force_input included.
C21_UsedFeaturesNotDrop ==
    (ret.op = "fit_read" /\ ret.err = "ok")
        => /\ \A f \in Range(used_features) :
                 f \in DOMAIN roles /\ roles[f].name # "Drop"
           /\ \A f \in DOMAIN ret.dataset.roles : ret.dataset.roles[f].name # "Drop"

\* the first fit_read of a reader: the forced feature a is rejected by the
\* scorers, stays in used_features and has the Drop role
C21_Witness ==
    /\ ret.op = "fit_read"
    /\ ret.err = "ok"
    /\ calls = 1
    /\ "a" \in ret.rejected
    /\ "a" \in Range(used_features)
    /\ "a" \in DOMAIN roles
    /\ roles["a"] = DropRole
    /\ ret.dataset.roles["a"] = DropRole

\* C23: after every successful fit_read, of PandasToPandasReader and of
\* DictToPandasSeqReader, the keys of the reader's roles are the names in
\* used_features.
C23_RolesMatchUsedFeatures ==
    (ret.op \in {"fit_read", "seq_fit_read"} /\ ret.err = "ok")
        => DOMAIN roles = Range(used_features)

\* the first fit_read of a sequential reader with advanced role guessing: the
\* sequential feature s is used and has lost its role
C23_Witness ==
    /\ ret.op = "seq_fit_read"
    /\ ret.err = "ok"
    /\ calls = 1
    /\ advanced_roles
    /\ ~ret.arg.plain.none
    /\ "a" \in Range(used_features)
    /\ "a" \in DOMAIN roles
    /\ "s" \in Range(used_features)
    /\ "s" \notin DOMAIN roles
    /\ "s" \in DOMAIN meta["seq"].roles

\* the features that one of the two passes scores
Scored(in) == {f \in DOMAIN in.dataset_roles : in.dataset_roles[f].name \in {"Numeric", "Category"}}

\* the greater of the null score and the best score of the feature f
FinalScore(in, f) ==
    IF in.verdicts[f].null_score >= in.verdicts[f].max_score
    THEN in.verdicts[f].null_score ELSE in.verdicts[f].max_score

\* C22: in advanced_roles_guess the final score of a scored feature is the
\* maximum of its null score and its best score; a scored feature without
\* force_input gets the Drop role if and only if that score is below
\* drop_score_co, whatever role the numeric or categorical pass chose, and a
\* feature that was not scored is returned with the role of the input dataset.
C22_DropByFinalScore ==
    (ret.op = "advanced_roles_guess" /\ ret.stage = "done")
        => /\ DOMAIN ret.new_roles_dict = DOMAIN arg.dataset_roles
           /\ \A f \in Scored(arg) :
                 ~arg.dataset_roles[f].force_input
                     => (ret.new_roles_dict[f] = DropRole <=> FinalScore(arg, f) < DropScoreCo)
           /\ \A f \in DOMAIN arg.dataset_roles \ Scored(arg) :
                 ret.new_roles_dict[f] = arg.dataset_roles[f]

\* a is kept by its null score alone, with the role the categorical pass
\* gave it; b is rejected although the numeric pass chose a role for it
C22_Witness ==
    /\ ret.op = "advanced_roles_guess"
    /\ ret.stage = "done"
    /\ arg.dataset_roles["a"] = CategoryRole
    /\ arg.verdicts["a"].max_score = 0
    /\ arg.verdicts["a"].null_score = 2
    /\ ret.new_roles_dict["a"] = CategoryInt
    /\ arg.dataset_roles["b"] = NumericRole
    /\ arg.verdicts["b"].numeric = CategoryRole
    /\ FinalScore(arg, "b") = 0
    /\ ret.new_roles_dict["b"] = DropRole

\* C24: for a binary or multiclass task whose target column was declared by
\* a target role, read(train_table, add_array_attrs=True) on the table of the
\* successful fit_read returns the target that fit_read put in its dataset,
\* cell by cell: the fitted mapping applied to the raw column, or the raw
\* column when no mapping was made, and no cell is missing.
C24_TargetRoundTrip ==
    (/\ ret.op = "read"
     /\ ret.add_array_attrs
     /\ task \in {"binary", "multiclass"}
     /\ ret.fit.declared
     /\ ret.data = ret.fit.train_data)
        => /\ ret.err = "ok"
           /\ "target" \in DOMAIN ret.dataset.attrs
           /\ ret.dataset.attrs["target"] = ret.fit.target
           /\ ret.dataset.attrs["target"] =
                 [i \in 1..NRows |->
                     IF class_mapping.none THEN ret.data.data["y"][i]
                     ELSE class_mapping.map[ret.data.data["y"][i]]]
           /\ \A i \in 1..NRows : ret.dataset.attrs["target"][i] # NaN

\* the table of the fit, labels 3 and 1, read back with the fitted mapping
C24_Witness ==
    /\ ret.op = "read"
    /\ ret.add_array_attrs
    /\ ~ret.again
    /\ task = "multiclass"
    /\ ret.fit.declared
    /\ ret.data = ret.fit.train_data
    /\ ret.data.data["y"] = Labelled(NRows)
    /\ ~class_mapping.none
    /\ ret.err = "ok"
    /\ ret.dataset.attrs["target"] = ret.fit.target
    /\ ret.dataset.attrs["target"] # ret.data.data["y"]

====
